---------------------------- MODULE Spec2Model ----------------------------
(***************************************************************************)
(* A model of the Lehmer (multiplicative congruential) generator of        *)
(* teleprint-me/lehmer.c, Python sources:                                  *)
(*                                                                         *)
(*   lehmer/generator.py   class Lehmer (y, generate, normalize, y_random) *)
(*   lehmer/gamma.py       gamma(z, a, m), generate_batch                  *)
(*   lehmer/cli.py         class LehmerState (the table of seeds)          *)
(*   lehmer/primality.py   TRUSTED_MULTIPLIERS, TRUSTED_MODULI             *)
(*   examples/lehmer.py    lehmer_generate_modulo                          *)
(*                                                                         *)
(* Python integers are unbounded; TLC's are 32 bit.  Every product the     *)
(* code forms is therefore computed here without ever leaving 32 bits      *)
(* (MulMod), and Python's floored // and % are written out (PyFloorDiv,    *)
(* PyMod) so that negative operands behave as in the interpreter.          *)
(***************************************************************************)
EXTENDS Integers, Sequences, FiniteSets, TLC

VARIABLES
    args,   \* the arguments of one call of a step function: [m, a, z]
    ret,    \* what each step function returned for args, once called
    rng,    \* a Lehmer object: its attributes z and seed
    calls,  \* how many times the driver has advanced rng
    kat,    \* a run of examples/lehmer.py's loop: [a, via, z, n]
    per,    \* a run of test_full_period's loop: [z0, z, n, visited]
    cfg,    \* the configuration both LehmerState objects are built from
    raised, \* the exception LehmerState.__init__ raised ("none")
    gen,    \* the LehmerState objects: gen[g] is object g's attributes
    heap,   \* the lists the objects' sequence attributes refer to
    out,    \* out[g]: the value object g's last call returned
    event,  \* the last call made: [g, name, arg]
    advances, \* how many modulo() calls the driver has issued
    wk      \* the workers: wk[w] = [pc, stream, left, next_seed]

stepVars == <<args, ret>>

lehmerVars == <<rng, calls>>

katVars == <<kat>>

periodVars == <<per>>

tableVars == <<cfg, raised, gen, heap, out, event, advances>>

workerVars == <<wk>>

vars == <<args, ret, rng, calls, kat, per,
          cfg, raised, gen, heap, out, event, advances, wk>>

---------------------------------------------------------------------------
(* Program constants                                                       *)

\* lehmer/cli.py: LehmerState.MODULUS; generator.py: Lehmer.m (2**31 - 1)
MODULUS == 2147483647

\* lehmer/cli.py: LehmerState.MULTIPLIER; generator.py: Lehmer.a
MULTIPLIER == 48271

\* lehmer/primality.py: the other trusted multiplier
MINSTD_MULTIPLIER == 16807

\* lehmer/primality.py: TRUSTED_MULTIPLIERS
TRUSTED_MULTIPLIERS == {MINSTD_MULTIPLIER, MULTIPLIER}

---------------------------------------------------------------------------
(* Bounds of the model                                                     *)

\* Small moduli 2..MaxM are enumerated exhaustively (every a, every z).
MaxM == 12

---------------------------------------------------------------------------
(* Python integer arithmetic                                               *)

Abs(x) == IF x < 0 THEN -x ELSE x

\* x // y for y # 0: the floor of the quotient, whatever the signs.
PyFloorDiv(x, y) == IF y > 0 THEN x \div y ELSE (-x) \div (-y)

\* x % y for y # 0: x - y * (x // y); it has the sign of y.
PyMod(x, y) == x - y * PyFloorDiv(x, y)

\* (x + y) % m for x, y in [0, m-1], without forming x + y.
AddMod(x, y, m) == IF x >= m - y THEN x - (m - y) ELSE x + y

\* (a * z) % m for a >= 0, z >= 0, m > 0: the exact value of the unbounded
\* product reduced mod m, by binary expansion of a (never above m - 1).
RECURSIVE MulMod(_, _, _)
MulMod(a, z, m) ==
    LET zr == z % m
    IN  IF zr = 0 \/ a = 0 THEN 0
        ELSE LET h == MulMod(a \div 2, zr, m)
                 d == AddMod(h, h, m)
             IN  IF a % 2 = 1 THEN AddMod(d, zr, m) ELSE d

---------------------------------------------------------------------------
(* The step functions                                                      *)

\* A call's outcome: a returned value or a raised exception.
Ok(v) == [err |-> "none", val |-> v]

Raised(e) == [err |-> e, val |-> 0]

NotCalled == [err |-> "not called", val |-> 0]

\* Lehmer.y: q = self.m // self.a
Quotient(a, m) == PyFloorDiv(m, a)

\* Lehmer.y: r = self.m % self.a
Remainder(a, m) == PyMod(m, a)

\* The step without the decomposition: the full product a * z is formed.
ProductA_Unreduced(z, a, m) == a * z

\* Lehmer.y, the first partial product: self.a * (self.z % q)
ProductA(z, a, m) == a * PyMod(z, Quotient(a, m))

\* Lehmer.y, the second partial product: r * (self.z // q)
ProductR(z, a, m) == Remainder(a, m) * PyFloorDiv(z, Quotient(a, m))

\* Lehmer.y: gamma = a * (z % q) - r * (z // q), before the sign test.
RawGamma(z, a, m) == ProductA(z, a, m) - ProductR(z, a, m)

\* A plausible slip in Lehmer.y: the negative branch is not brought back.
y_NoWrap(z, a, m) == RawGamma(z, a, m)

\* A slip in the negative branch of Lehmer.y: the wrap adds m - 1, the top
\* of the range, instead of the modulus m.
y_WrapShort(z, a, m) ==
    LET g == RawGamma(z, a, m)
    IN  IF g >= 0 THEN g ELSE g + m - 1

\* Lehmer.y: return gamma if gamma >= 0 else gamma + self.m
y(z, a, m) ==
    LET g == RawGamma(z, a, m)
    IN  IF g >= 0 THEN g ELSE g + m

\* gamma.py gamma(): the same decomposition, reduced with a full % m.
gamma(z, a, m) == PyMod(RawGamma(z, a, m), m)

\* A plausible slip in generate(): a mixed-congruential step, a + z.
generate_Additive(z, a, m) == PyMod(Abs(a) + Abs(z), m)

\* Lehmer.scale then Lehmer.generate: abs(a * z) % m.  abs(a*z) = |a|*|z|.
generate(z, a, m) == MulMod(Abs(a), Abs(z), m)

\* m // a and then z % q, z // q divide by zero when a = 0 or q = 0.
DividesByZero(a, m) == a = 0 \/ PyFloorDiv(m, a) = 0

\* Lehmer.y as a call: the value, or the ZeroDivisionError Python raises.
yCall(z, a, m) ==
    IF DividesByZero(a, m) THEN Raised("ZeroDivisionError") ELSE Ok(y(z, a, m))

\* gamma() as a call.
gammaCall(z, a, m) ==
    IF DividesByZero(a, m) THEN Raised("ZeroDivisionError")
    ELSE Ok(gamma(z, a, m))

\* Lehmer.generate as a call: it never divides by a or q.
generateCall(z, a, m) == Ok(generate(z, a, m))

---------------------------------------------------------------------------
(* Specification SpecStep: one call of each step function on every input   *)

\* The Schrage precondition of a parameter pair: 0 < a < m and r < q.
ValidPair(a, m) ==
    /\ 0 < a
    /\ a < m
    /\ PyMod(m, a) < PyFloorDiv(m, a)

\* Seeds tried with the production modulus (z in [0, m-1]).
SampleSeeds ==
    {0, 1, 2, 44487, 44488, 44489, 127773, 1337, 123456789,
     1043618065, MODULUS - 2, MODULUS - 1}

\* Every small (m, a, z), valid or not, and the production pairs.
StepInputs ==
    {[m |-> m, a |-> a, z |-> z] :
        m \in 2..MaxM, a \in (-2)..(MaxM + 1), z \in 0..(MaxM - 1)}

SmallInputs == {i \in StepInputs : i.a <= i.m + 1 /\ i.z < i.m}

ProductionInputs ==
    {[m |-> MODULUS, a |-> a, z |-> z] :
        a \in TRUSTED_MULTIPLIERS, z \in SampleSeeds}

NoResults == [y |-> NotCalled, gamma |-> NotCalled, generate |-> NotCalled]

StartStep ==
    /\ args \in SmallInputs \cup ProductionInputs
    /\ ret = NoResults

CallY ==
    /\ ret.y = NotCalled
    /\ ret' = [ret EXCEPT !.y = yCall(args.z, args.a, args.m)]
    /\ UNCHANGED <<args, lehmerVars, katVars, periodVars, tableVars, workerVars>>

CallGamma ==
    /\ ret.gamma = NotCalled
    /\ ret' = [ret EXCEPT !.gamma = gammaCall(args.z, args.a, args.m)]
    /\ UNCHANGED <<args, lehmerVars, katVars, periodVars, tableVars, workerVars>>

CallGenerate ==
    /\ ret.generate = NotCalled
    /\ ret' = [ret EXCEPT !.generate = generateCall(args.z, args.a, args.m)]
    /\ UNCHANGED <<args, lehmerVars, katVars, periodVars, tableVars, workerVars>>

IdleStep ==
    /\ args = [m |-> MODULUS, a |-> MULTIPLIER, z |-> 1]
    /\ ret = NoResults

---------------------------------------------------------------------------
(* The Lehmer object of lehmer/generator.py (m and a are its read-only     *)
(* properties 2**31 - 1 and 48271)                                         *)

\* The driver advances the object at most MaxCalls times.
MaxCalls == 24

\* The seeds a caller hands to Lehmer(z): test.py uses 0, 1, 2**31 - 1 and
\* 123456789.

LehmerSeeds == {0, 1, 2, 123456789, MODULUS - 1, MODULUS}

\* The attribute self.seed does not exist until y_random or d_random sets it.
Unset == NotCalled

\* Lehmer.__init__: self.z = z, as given.
LehmerNew(z) == [z |-> z, seed |-> Unset]

\* Lehmer.normalize: self.z / self.m, kept as the exact fraction.  For
\* |z| <= m the float quotient is 0.0 iff z = 0 and 1.0 iff z = m.
normalize(o) == [num |-> o.z, den |-> MODULUS]

\* Lehmer.y_random: self.z = self.generate(); self.seed = self.y()
y_random(o) ==
    LET z1 == generate(o.z, MULTIPLIER, MODULUS)
    IN  [z |-> z1, seed |-> Ok(y(z1, MULTIPLIER, MODULUS))]

\* Lehmer.d_random: the same two assignments.
d_random(o) ==
    LET z1 == generate(o.z, MULTIPLIER, MODULUS)
    IN  [z |-> z1, seed |-> Ok(y(z1, MULTIPLIER, MODULUS))]

StartLehmer ==
    /\ rng \in {LehmerNew(z) : z \in LehmerSeeds}
    /\ calls = 0

YRandom ==
    /\ calls < MaxCalls
    /\ rng' = y_random(rng)
    /\ calls' = calls + 1
    /\ UNCHANGED <<stepVars, katVars, periodVars, tableVars, workerVars>>

DRandom ==
    /\ calls < MaxCalls
    /\ rng' = d_random(rng)
    /\ calls' = calls + 1
    /\ UNCHANGED <<stepVars, katVars, periodVars, tableVars, workerVars>>

\* test_full_period's loop body: rng.z = rng.generate()
AssignGenerate ==
    /\ calls < MaxCalls
    /\ rng' = [rng EXCEPT !.z = generate(rng.z, MULTIPLIER, MODULUS)]
    /\ calls' = calls + 1
    /\ UNCHANGED <<stepVars, katVars, periodVars, tableVars, workerVars>>

IdleLehmer ==
    /\ rng = LehmerNew(1)
    /\ calls = 0

---------------------------------------------------------------------------
(* The known-answer run: examples/lehmer.py's loop                         *)
(*     for i in range(args.iterations): seed = lehmer_generate_modulo(seed)*)
(* with the step taken by Lehmer.y, by gamma() or by the direct product,   *)
(* for each trusted multiplier.                                            *)

\* examples/lehmer.py: --iterations, default 10000
Iterations == 10000

\* examples/lehmer.py lehmer_generate_modulo: (MULTIPLIER * seed) % MODULUS,
\* with the multiplier passed in.
lehmer_generate_modulo(seed, a) == MulMod(a, seed, MODULUS)

StartKat ==
    /\ kat \in {[a |-> a, via |-> v, z |-> 1, n |-> 0] :
                  a \in TRUSTED_MULTIPLIERS, v \in {"y", "gamma", "modulo"}}

KatStepY ==
    /\ kat.via = "y"
    /\ kat.n < Iterations
    /\ kat' = [kat EXCEPT !.z = y(kat.z, kat.a, MODULUS), !.n = @ + 1]
    /\ UNCHANGED <<stepVars, lehmerVars, periodVars, tableVars, workerVars>>

KatStepGamma ==
    /\ kat.via = "gamma"
    /\ kat.n < Iterations
    /\ kat' = [kat EXCEPT !.z = gamma(kat.z, kat.a, MODULUS), !.n = @ + 1]
    /\ UNCHANGED <<stepVars, lehmerVars, periodVars, tableVars, workerVars>>

KatStepModulo ==
    /\ kat.via = "modulo"
    /\ kat.n < Iterations
    /\ kat' = [kat EXCEPT !.z = lehmer_generate_modulo(kat.z, kat.a),
                          !.n = @ + 1]
    /\ UNCHANGED <<stepVars, lehmerVars, periodVars, tableVars, workerVars>>

IdleKat == kat = [a |-> MULTIPLIER, via |-> "y", z |-> 1, n |-> 0]

---------------------------------------------------------------------------
(* The full-period run: test_full_period's loop, rng.z = rng.generate(),   *)
(* on the toy parameters m = 31, a = 3.                                    *)

\* The loop is followed for a little more than two periods.
MaxPeriodSteps == 62

ToyParams == [m |-> 31, a |-> 3]

\* One pass of the loop body with the toy parameters.
toyGenerate(z) == generate(z, ToyParams.a, ToyParams.m)

StartPeriod ==
    /\ per \in {[z0 |-> s, z |-> s, n |-> 0, visited |-> {}] :
                  s \in 1..(ToyParams.m - 1)}

PeriodStep ==
    /\ per.n < MaxPeriodSteps
    /\ per' = [per EXCEPT !.z = toyGenerate(per.z),
                          !.n = @ + 1,
                          !.visited = @ \cup {toyGenerate(per.z)}]
    /\ UNCHANGED <<stepVars, lehmerVars, katVars, tableVars, workerVars>>

IdlePeriod == per = [z0 |-> 1, z |-> 1, n |-> 0, visited |-> {}]

---------------------------------------------------------------------------
(* The table of seeds: class LehmerState of lehmer/cli.py.  An object is   *)
(* the record of its attributes; self.sequence is a reference to a list    *)
(* held in the heap, as in Python.  A method is an operator from the       *)
(* object and the heap to the new object, the new heap and the value       *)
(* returned.                                                               *)

\* The largest length asked of the constructor.
MaxLength == 3

\* select() is called with every index in -MaxIndex..MaxIndex.
MaxIndex == 4

\* The number of modulo() calls a driver issues.
MaxAdvances == 3

\* Two objects are built from the same configuration.
Instances == {1, 2}

\* Values returned to the caller: None, an int, or a float kept as an
\* exact fraction.
None == [kind |-> "None", num |-> 0, den |-> 1]

IntValue(v) == [kind |-> "int", num |-> v, den |-> 1]

Float(n, d) == [kind |-> "float", num |-> n, den |-> d]

Res(o, h, r) == [o |-> o, h |-> h, ret |-> r]

Max(a, b) == IF a >= b THEN a ELSE b

\* generate_sequence: sequence[0] from the root seed, sequence[i] from
\* sequence[i-1], each (MULTIPLIER * previous) % MODULUS.
RECURSIVE Chain(_, _)
Chain(prev, n) ==
    IF n = 0 THEN <<>>
    ELSE LET v == MulMod(MULTIPLIER, prev, MODULUS)
         IN  <<v>> \o Chain(v, n - 1)

generate_sequence(o) == Chain(o.seed, o.length)

\* A list attribute held by the class instead of the object: every
\* instance then reads and writes the same list.
AllocShared(g) == 1

\* self.sequence = [0] * self.length: a fresh list for each object.
AllocSequence(g) == g

\* LehmerState.__init__: seed % MODULUS, position 0, max(1, length).
LehmerStateNew(seed, length, ref) ==
    [seed     |-> PyMod(seed, MODULUS),
     position |-> 0,
     length   |-> Max(1, length),
     sequence |-> ref]

\* __init__ has no raise statement, and %, max and the list allocation are
\* total for a positive modulus: the constructor raises nothing.
LehmerStateRaises(seed, length) == "none"

\* A select() that takes the index as given.
select_NoWrap(o, h, position) == Res([o EXCEPT !.position = position], h, None)

\* LehmerState.select: self.position = position % self.length
select(o, h, position) ==
    Res([o EXCEPT !.position = PyMod(position, o.length)], h, None)

\* LehmerState.set_previous_seed
set_previous_seed(o, h) ==
    Res([o EXCEPT !.position = PyMod(o.position - 1, o.length)], h, None)

\* LehmerState.set_next_seed
set_next_seed(o, h) ==
    Res([o EXCEPT !.position = PyMod(o.position + 1, o.length)], h, None)

\* LehmerState.get_current_seed: self.position %= self.length, then the
\* list element (Python lists count from 0, sequences here from 1).
get_current_seed(o, h) ==
    LET o1 == [o EXCEPT !.position = PyMod(o.position, o.length)]
    IN  Res(o1, h, IntValue(h[o1.sequence][o1.position + 1]))

\* LehmerState.get_next_seed
get_next_seed(o, h) ==
    LET r == set_next_seed(o, h)
    IN  get_current_seed(r.o, r.h)

\* LehmerState.normalize: get_current_seed() / MODULUS
LehmerState_normalize(o, h) ==
    LET c == get_current_seed(o, h)
    IN  Res(c.o, c.h, Float(c.ret.num, MODULUS))

\* A modulo() that stores the new seed one slot too far.
modulo_WritesNextSlot(o, h) ==
    LET c == get_current_seed(o, h)
        next_seed == MulMod(MULTIPLIER, c.ret.num, MODULUS)
        slot == PyMod(c.o.position + 1, c.o.length) + 1
    IN  Res(c.o, [c.h EXCEPT ![c.o.sequence][slot] = next_seed],
            IntValue(next_seed))

\* LehmerState.modulo, its first statement: the current seed is read
\* (through get_current_seed, which also normalises self.position) and
\* next_seed = (MULTIPLIER * current) % MODULUS is computed.
modulo_read(o, h) ==
    LET c == get_current_seed(o, h)
    IN  Res(c.o, c.h, IntValue(MulMod(MULTIPLIER, c.ret.num, MODULUS)))

\* LehmerState.modulo, its second statement:
\* self.sequence[self.position] = next_seed, and the return.
modulo_write(o, h, next_seed) ==
    Res(o, [h EXCEPT ![o.sequence][o.position + 1] = next_seed],
        IntValue(next_seed))

\* LehmerState.modulo, called with nothing running in between.
modulo(o, h) ==
    LET c == modulo_read(o, h)
    IN  modulo_write(c.o, c.h, c.ret.num)

\* The seeds and lengths given to the constructor (cli.py: --seed is any
\* int, default 123456789; --length is any int).
TableSeeds == {-MODULUS, -1, 0, 1, 2, 123456789, MODULUS}

TableLengths == (-1)..MaxLength

SelectArgs == (-MaxIndex)..MaxIndex

\* A method call by name.
Apply(op, o, h) ==
    CASE op.name = "select"            -> select(o, h, op.arg)
      [] op.name = "set_previous_seed" -> set_previous_seed(o, h)
      [] op.name = "set_next_seed"     -> set_next_seed(o, h)
      [] op.name = "get_current_seed"  -> get_current_seed(o, h)
      [] op.name = "get_next_seed"     -> get_next_seed(o, h)
      [] op.name = "normalize"         -> LehmerState_normalize(o, h)
      [] op.name = "modulo"            -> modulo(o, h)

Op(name, arg) == [name |-> name, arg |-> arg]

\* The driver gives every call first to object 1 and then to object 2.
Turn(g, op) ==
    IF g = 1 THEN event.g # 1
    ELSE event.g = 1 /\ op = Op(event.name, event.arg)

\* Object g executes the call op.
Perform(g, op) ==
    /\ LET r == Apply(op, gen[g], heap)
       IN  /\ gen' = [gen EXCEPT ![g] = r.o]
           /\ heap' = r.h
           /\ out' = [out EXCEPT ![g] = r.ret]
    /\ event' = [g |-> g, name |-> op.name, arg |-> op.arg]
    /\ advances' = advances + (IF g = 1 /\ op.name = "modulo" THEN 1 ELSE 0)
    /\ UNCHANGED <<cfg, raised, stepVars, lehmerVars, katVars, periodVars, workerVars>>

StartTable ==
    /\ cfg \in {[seed |-> s, length |-> l] : s \in TableSeeds, l \in TableLengths}
    /\ raised = LehmerStateRaises(cfg.seed, cfg.length)
    /\ gen = [g \in Instances |->
                LehmerStateNew(cfg.seed, cfg.length, AllocSequence(g))]
    /\ heap = [ref \in {AllocSequence(g) : g \in Instances} |->
                generate_sequence(LehmerStateNew(cfg.seed, cfg.length, ref))]
    /\ out = [g \in Instances |-> None]
    /\ event = [g |-> 0, name |-> "__init__", arg |-> 0]
    /\ advances = 0

Select ==
    \E g \in Instances, k \in SelectArgs :
        /\ Turn(g, Op("select", k))
        /\ Perform(g, Op("select", k))

SetPreviousSeed ==
    \E g \in Instances :
        /\ Turn(g, Op("set_previous_seed", 0))
        /\ Perform(g, Op("set_previous_seed", 0))

SetNextSeed ==
    \E g \in Instances :
        /\ Turn(g, Op("set_next_seed", 0))
        /\ Perform(g, Op("set_next_seed", 0))

GetCurrentSeed ==
    \E g \in Instances :
        /\ Turn(g, Op("get_current_seed", 0))
        /\ Perform(g, Op("get_current_seed", 0))

GetNextSeed ==
    \E g \in Instances :
        /\ Turn(g, Op("get_next_seed", 0))
        /\ Perform(g, Op("get_next_seed", 0))

Normalize ==
    \E g \in Instances :
        /\ Turn(g, Op("normalize", 0))
        /\ Perform(g, Op("normalize", 0))

Modulo ==
    \E g \in Instances :
        /\ Turn(g, Op("modulo", 0))
        /\ g = 1 => advances < MaxAdvances
        /\ Perform(g, Op("modulo", 0))

IdleTable ==
    /\ cfg = [seed |-> 1, length |-> 1]
    /\ raised = "none"
    /\ gen = [g \in Instances |-> LehmerStateNew(1, 1, AllocSequence(g))]
    /\ heap = [ref \in {AllocSequence(g) : g \in Instances} |-> <<MULTIPLIER>>]
    /\ out = [g \in Instances |-> None]
    /\ event = [g |-> 0, name |-> "__init__", arg |-> 0]
    /\ advances = 0

---------------------------------------------------------------------------
(* Workers advancing streams of one LehmerState object, gen[1], with no    *)
(* synchronisation.  To advance stream i a worker calls select(i) and      *)
(* then modulo(); the interpreter may switch threads between the call of   *)
(* select, the read of the current seed and the write-back of next_seed.   *)

NWorkers == 2

\* The number of streams of the shared table.
NStreams == 2

\* The number of times each worker advances its stream.
WorkerAdvances == 2

Workers == 1..NWorkers

StartWorkers ==
    /\ cfg = [seed |-> 1, length |-> NStreams]
    /\ raised = LehmerStateRaises(cfg.seed, cfg.length)
    /\ gen = [g \in Instances |->
                LehmerStateNew(cfg.seed, cfg.length, AllocSequence(g))]
    /\ heap = [ref \in {AllocSequence(g) : g \in Instances} |->
                generate_sequence(LehmerStateNew(cfg.seed, cfg.length, ref))]
    /\ out = [g \in Instances |-> None]
    /\ event = [g |-> 0, name |-> "__init__", arg |-> 0]
    /\ advances = 0
    /\ wk \in [Workers ->
                {[pc |-> "select", stream |-> i, left |-> WorkerAdvances,
                  next_seed |-> 0] : i \in 0..(NStreams - 1)}]

\* Worker w calls select(its stream).
WorkerSelect(w) ==
    /\ wk[w].pc = "select"
    /\ LET r == select(gen[1], heap, wk[w].stream)
       IN  gen' = [gen EXCEPT ![1] = r.o]
    /\ wk' = [wk EXCEPT ![w].pc = "read"]
    /\ UNCHANGED <<cfg, raised, heap, out, event, advances>>
    /\ UNCHANGED <<stepVars, lehmerVars, katVars, periodVars>>

\* Worker w enters modulo(): reads the current seed, computes next_seed.
WorkerRead(w) ==
    /\ wk[w].pc = "read"
    /\ LET r == modulo_read(gen[1], heap)
       IN  /\ gen' = [gen EXCEPT ![1] = r.o]
           /\ wk' = [wk EXCEPT ![w].pc = "write", ![w].next_seed = r.ret.num]
    /\ UNCHANGED <<cfg, raised, heap, out, event, advances>>
    /\ UNCHANGED <<stepVars, lehmerVars, katVars, periodVars>>

\* Worker w stores next_seed at self.position and returns from modulo().
WorkerWrite(w) ==
    /\ wk[w].pc = "write"
    /\ LET r == modulo_write(gen[1], heap, wk[w].next_seed)
       IN  heap' = r.h
    /\ wk' = [wk EXCEPT ![w].left = @ - 1,
                        ![w].pc = IF wk[w].left = 1 THEN "done" ELSE "select"]
    /\ UNCHANGED <<cfg, raised, gen, out, event, advances>>
    /\ UNCHANGED <<stepVars, lehmerVars, katVars, periodVars>>

IdleWorkers ==
    wk = [w \in Workers |->
            [pc |-> "done", stream |-> 0, left |-> 0, next_seed |-> 0]]

---------------------------------------------------------------------------
(* The specifications                                                      *)

InitStep == StartStep /\ IdleLehmer /\ IdleKat /\ IdlePeriod /\ IdleTable
    /\ IdleWorkers

NextStep == CallY \/ CallGamma \/ CallGenerate

SpecStep == InitStep /\ [][NextStep]_vars

InitLehmer == IdleStep /\ StartLehmer /\ IdleKat /\ IdlePeriod /\ IdleTable
    /\ IdleWorkers

NextLehmer == YRandom \/ DRandom \/ AssignGenerate

SpecLehmer == InitLehmer /\ [][NextLehmer]_vars

InitKat == IdleStep /\ IdleLehmer /\ StartKat /\ IdlePeriod /\ IdleTable
    /\ IdleWorkers

NextKat == KatStepY \/ KatStepGamma \/ KatStepModulo

SpecKat == InitKat /\ [][NextKat]_vars

InitPeriod == IdleStep /\ IdleLehmer /\ IdleKat /\ StartPeriod /\ IdleTable
    /\ IdleWorkers

NextPeriod == PeriodStep

SpecPeriod == InitPeriod /\ [][NextPeriod]_vars

InitTable == IdleStep /\ IdleLehmer /\ IdleKat /\ IdlePeriod /\ StartTable
    /\ IdleWorkers

NextTable ==
    \/ Select
    \/ SetPreviousSeed
    \/ SetNextSeed
    \/ GetCurrentSeed
    \/ GetNextSeed
    \/ Normalize
    \/ Modulo

SpecTable == InitTable /\ [][NextTable]_vars

InitWorkers ==
    IdleStep /\ IdleLehmer /\ IdleKat /\ IdlePeriod /\ StartWorkers

NextWorkers ==
    \E w \in Workers : WorkerSelect(w) \/ WorkerRead(w) \/ WorkerWrite(w)

SpecWorkers == InitWorkers /\ [][NextWorkers]_vars

---------------------------------------------------------------------------
(* C1: for every pair (m, a) with r < q and every z in [0, m-1], the       *)
(* overflow-safe step Lehmer.y returns exactly (a*z) mod m, the value of   *)
(* the direct generate() step (and of gamma()).                            *)
C1_StepCorrect ==
    (ValidPair(args.a, args.m) /\ ret.y # NotCalled) =>
        /\ ret.y = generateCall(args.z, args.a, args.m)
        /\ ret.y = gammaCall(args.z, args.a, args.m)
        /\ args.m <= MaxM => ret.y = Ok((args.a * args.z) % args.m)
        /\ ret.generate # NotCalled => ret.y = ret.generate

\* The step was taken at the production modulus through the negative
\* branch (gamma + m), and generate() was called on the same input.
C1_Witness ==
    /\ args.m = MODULUS
    /\ ValidPair(args.a, args.m)
    /\ RawGamma(args.z, args.a, args.m) < 0
    /\ ret.y # NotCalled
    /\ ret.generate # NotCalled
    /\ ret.y.val > 0

---------------------------------------------------------------------------
---------------------------------------------------------------------------
(* C4: a modulo() performed while stream i is selected writes the new seed *)
(* into slot i and leaves the seed of every other stream j # i unchanged.  *)
C4_OtherStreamsUnchanged ==
    [][\A g \in Instances :
          (event'.g = g /\ event'.name = "modulo") =>
              LET i == gen[g].position + 1
                  before == heap[gen[g].sequence]
                  after == heap'[gen'[g].sequence]
              IN  /\ Len(after) = Len(before)
                  /\ after[i] = MulMod(MULTIPLIER, before[i], MODULUS)
                  /\ \A j \in 1..Len(before) : j # i => after[j] = before[j]
      ]_vars

\* Stream 1 of a table of three has been advanced once: its slot moved and
\* streams 0 and 2 still hold the seeds the constructor gave them.
C4_Witness ==
    /\ event.g = 1
    /\ event.name = "modulo"
    /\ cfg = [seed |-> 1, length |-> 3]
    /\ gen[1].position = 1
    /\ advances = 1
    /\ heap[gen[1].sequence][2] # Chain(1, 3)[2]
    /\ heap[gen[1].sequence][1] = Chain(1, 3)[1]
    /\ heap[gen[1].sequence][3] = Chain(1, 3)[3]

---------------------------------------------------------------------------
(* C6: for every requested count (values <= 0 give one stream) and every   *)
(* integer k, negative ones included, select(k) returns normally with the  *)
(* selected index in [0, length-1], select(k) and select(k + length)       *)
(* select the same stream, and the index stays in range after every call.  *)
C6_SelectWraps ==
    \A g \in Instances :
        LET o == gen[g]
        IN  /\ o.length = Max(1, cfg.length)
            /\ Len(heap[o.sequence]) = o.length
            /\ o.position \in 0..(o.length - 1)
            /\ \A k \in SelectArgs :
                   LET s1 == select(o, heap, k)
                       s2 == select(o, heap, k + o.length)
                   IN  /\ s1.ret = None
                       /\ s1.o.position \in 0..(o.length - 1)
                       /\ s1.o.position = s2.o.position
            /\ (event.g = g /\ event.name = "select") =>
                   o.position = PyMod(event.arg, o.length)

\* select(-4) on a table of three streams has selected stream 2.
C6_Witness ==
    /\ event.name = "select"
    /\ event.arg = -4
    /\ gen[event.g].length = 3
    /\ gen[event.g].position = 2

---------------------------------------------------------------------------
(* C9: stream creation coerces any integer seed into [0, m-1] by           *)
(* ((seed mod m) + m) mod m and fails with a SeedError when the coerced    *)
(* value is 0, at construction, substituting no default seed.              *)
C9_ZeroSeedRejected ==
    LET coerced == PyMod(PyMod(cfg.seed, MODULUS), MODULUS)
    IN  /\ \A g \in Instances : gen[g].seed = coerced
        /\ coerced = 0 => raised = "SeedError"

---------------------------------------------------------------------------
(* C10: creating a parameter set (m, a) fails with a ConfigurationError    *)
(* whenever r >= q, or a <= 0, or a >= m, so that no step is ever taken    *)
(* with a pair for which the overflow-safe step is not valid.              *)
C10_InvalidPairRejected ==
    \A f \in {"y", "gamma"} :
        (~ValidPair(args.a, args.m) /\ ret[f] # NotCalled) =>
            ret[f].err = "ConfigurationError"

---------------------------------------------------------------------------
(* The sequential reference for the workers                               *)

\* A seed advanced n times by one caller, nothing running in between.
RECURSIVE Advanced(_, _)
Advanced(seed, n) ==
    IF n = 0 THEN seed
    ELSE MulMod(MULTIPLIER, Advanced(seed, n - 1), MODULUS)

\* How many times stream i is to be advanced by the workers assigned to it.
Quota(i) ==
    IF \E w \in Workers : wk[w].stream = i THEN WorkerAdvances ELSE 0

---------------------------------------------------------------------------
(* C5: when every stream index is advanced by exactly one worker, then     *)
(* under every interleaving of the workers' steps each stream ends with    *)
(* the seed it would have if its worker had advanced it alone.             *)
C5_StreamsAdvanceAlone ==
    LET distinct == \A v, w \in Workers : v # w => wk[v].stream # wk[w].stream
        done == \A w \in Workers : wk[w].pc = "done"
        initial == generate_sequence(gen[1])
        final == heap[gen[1].sequence]
    IN  (distinct /\ done) =>
            \A s \in 1..NStreams : final[s] = Advanced(initial[s], Quota(s - 1))

---------------------------------------------------------------------------
(* C3: in every reachable state of a generator, for any caller-supplied    *)
(* initial seed, before and after any number of advances, 1 <= z <= m-1,   *)
(* so normalize() lies in [0.0, 1.0) and is neither 0.0 nor 1.0.           *)
C3_SeedInRange ==
    /\ 1 <= rng.z
    /\ rng.z <= MODULUS - 1
    /\ 0 < normalize(rng).num
    /\ normalize(rng).num < normalize(rng).den

---------------------------------------------------------------------------
(* The sequence the specification lists for m = 31, a = 3, seed 1         *)

SpecSequence ==
    <<1, 3, 9, 27, 19, 26, 16, 17, 20, 29, 25, 13, 8, 24, 10, 30, 28, 22,
      4, 12, 5, 15, 14, 11, 2, 6, 18, 23, 7, 21, 1>>

---------------------------------------------------------------------------
(* C7: with m = 31, a = 3, from seed 1 (and from any nonzero seed) the     *)
(* generator visits all 30 nonzero residues exactly once and first         *)
(* returns to its starting seed after exactly 30 steps.                    *)
C7_FullPeriod ==
    LET period == ToyParams.m - 1
    IN  /\ (per.n > 0 /\ per.z = per.z0) => per.n % period = 0
        /\ per.n % period = 0 => per.z = per.z0
        /\ per.n <= period => Cardinality(per.visited) = per.n
        /\ per.n >= period => per.visited = 1..period
        /\ (per.z0 = 1 /\ per.n <= period) => per.z = SpecSequence[per.n + 1]

\* Seed 1 has come back to 1 after 30 steps, all 30 residues visited.
C7_Witness ==
    /\ per.z0 = 1
    /\ per.n = 30
    /\ per.z = 1
    /\ Cardinality(per.visited) = 30

---------------------------------------------------------------------------
(* C8: with m = 2^31 - 1, a = 16807 and seed 1, the value after exactly    *)
(* 10,000 successive steps is 1043618065.                                  *)
C8_KnownAnswer ==
    (kat.a = 16807 /\ kat.n = 10000) => kat.z = 1043618065

\* The 10,000th step has been taken by Lehmer.y's decomposition.
C8_Witness ==
    /\ kat.a = 16807
    /\ kat.via = "y"
    /\ kat.n = 10000
    /\ kat.z > 0

---------------------------------------------------------------------------
\* The table of object 1 as its constructor left it: no call has been made.
AsBuilt == event.name = "__init__"

InitialSeeds == heap[gen[1].sequence]

(* C11: in a table of two or more streams the initial seed of stream k+1   *)
(* is the initial seed of stream k moved on by a jump J > 1, so advancing  *)
(* stream k fewer than J times (once, in particular) never yields the      *)
(* initial seed of stream k+1.                                             *)
C11_LeapfrogSeeding ==
    (AsBuilt /\ gen[1].length >= 2 /\ gen[1].seed # 0) =>
        \A k \in 1..(gen[1].length - 1) :
            InitialSeeds[k + 1] # modulo_read(
                [gen[1] EXCEPT !.position = k - 1], heap).ret.num

---------------------------------------------------------------------------
(* C12: for a pair with a positive multiplier and r < q, and z in          *)
(* [0, m-1], both partial products a*(z mod q) and r*(z div q) of the      *)
(* step lie in [0, m-1], the raw gamma lies strictly between -m and m,     *)
(* and the value returned is gamma, or gamma + m when gamma is negative,   *)
(* and lies in [0, m-1].                                                   *)
C12_PartialProductsBounded ==
    LET z == args.z
        a == args.a
        m == args.m
    IN  (/\ ret.y # NotCalled
         /\ a > 0
         /\ ~DividesByZero(a, m)
         /\ Remainder(a, m) < Quotient(a, m)
         /\ 0 <= z /\ z <= m - 1) =>
            LET g == RawGamma(z, a, m)
            IN  /\ 0 <= ProductA(z, a, m) /\ ProductA(z, a, m) <= m - 1
                /\ 0 <= ProductR(z, a, m) /\ ProductR(z, a, m) <= m - 1
                /\ -m < g /\ g < m
                /\ ret.y = Ok(IF g >= 0 THEN g ELSE g + m)
                /\ 0 <= ret.y.val /\ ret.y.val <= m - 1

\* Lehmer.y has returned for the production pair on a seed whose raw gamma
\* is negative, so the addition of m was taken.
C12_Witness ==
    /\ args.m = MODULUS
    /\ args.a = MULTIPLIER
    /\ ret.y # NotCalled
    /\ ProductR(args.z, args.a, args.m) > ProductA(args.z, args.a, args.m)
    /\ ProductA(args.z, args.a, args.m) > 0

=============================================================================
